---- MODULE Spec2Model ----
(***************************************************************************)
(* gathermetadata: the Recorder of src/gathermetadata/__main__.py.         *)
(*                                                                         *)
(* The model follows one run of main(): a Recorder is constructed, then    *)
(* record_all walks the catalog in insertion order and calls record for    *)
(* each entry; record expands the command template, spawns the process,    *)
(* waits for it under the timeout, saves the non-empty streams and fills   *)
(* in a Result; main finally writes gather.json.                           *)
(*                                                                         *)
(* record blocks in two places, both calls of Popen.communicate: the model *)
(* has one action per stretch of code between two blocking points.         *)
(*                                                                         *)
(* Python's optional values: None is the empty tuple, a present value v is *)
(* the one-element tuple <<v>>.  Time stamps and durations are abstracted  *)
(* to the token "t" (only their presence is modelled).  A byte string is a *)
(* sequence of bytes.  A command template is a sequence of tokens, one per *)
(* whitespace-separated piece of the template text.                        *)
(*                                                                         *)
(* Writes below the output directory are taken to succeed.                 *)
(***************************************************************************)
EXTENDS Integers, Sequences, FiniteSets, TLC

(* Bounds of the model. *)
MaxCatalog == 2
MaxBytes == 1

(* Popen.kill() sends SIGKILL; a process ended by signal n has returncode -n. *)
SIGKILL == 9

None == <<>>
Some(v) == <<v>>

(* ---------------------------------------------------------------------- *)
(* Inputs                                                                 *)
(* ---------------------------------------------------------------------- *)

(* Keys of the catalog, by position (a dict's keys are distinct). *)
KeyNames == <<"nproc", "lstopo", "scontrol", "mpivars">>

Lit(w) == [kind |-> "lit", text |-> w]
Field(k) == [kind |-> "field", text |-> k]
Brace == [kind |-> "brace", text |-> "{"]

(* Command templates: the shapes of _recordables and the ways a template   *)
(* or its executable can be unusable.                                      *)
(*   "prog {outdir} {name} {HOME}"  placeholders that are defined          *)
(*                                  ("lstopo --of ascii {outdir}/{name}")  *)
(*   "prog {SLURM_JOBID}"   a variable the environment lacks ("scontrol")  *)
(*   "nothing"              no such executable               ("broken")    *)
(*   "data"                 a file that cannot be executed                 *)
(*   "prog {}"              a positional placeholder                       *)
(*   "prog {"               an unmatched brace                             *)
(*   "prog '"               an unmatched quote                             *)
(*   ""                     the empty command                              *)
Commands ==
    { <<Lit("prog"), Field("outdir"), Field("name"), Field("HOME")>>,
      <<Lit("prog"), Field("SLURM_JOBID")>>,
      <<Lit("nothing")>>,
      <<Lit("data")>>,
      <<Lit("prog"), Field("")>>,
      <<Lit("prog"), Brace>>,
      <<Lit("prog"), Lit("'")>>,
      <<>> }

(* The environment of the process: HOME is set, SLURM_JOBID is not. *)
Environ == [k \in {"HOME"} |-> <<"home">>]

(* What the operating system finds for argv[0]. *)
Executable(w) ==
    CASE w = "prog" -> "executable"
      [] w \in {"data", "outdir", "home"} -> "not_executable"
      [] OTHER -> "missing"

(* Exit statuses of a process that ends on its own. *)
ExitCodes == {0, 1}

(* Byte strings of at most n bytes. *)
Bytes(n) == UNION { [1..k -> {0}] : k \in 0..n }

Catalogs ==
    UNION { { [i \in 1..n |-> [name |-> KeyNames[i], command |-> c[i]]] :
                c \in [1..n -> Commands] } : n \in 1..MaxCatalog }

(* ---------------------------------------------------------------------- *)
(* State                                                                  *)
(* ---------------------------------------------------------------------- *)

VARIABLES
    errors_fatal,     \* Recorder.errors_fatal
    no_result_json,   \* args["--no-result-json"]
    recordables,      \* the catalog handed to record_all, in insertion order
    idx,              \* position of record_all's for loop in the catalog
    pc,               \* "loop", "communicate", "drain", "done", "raised"
    res,              \* record's Result under construction (None outside)
    proc,             \* the child process of the record call in progress
    results,          \* record_all's results dict
    files,            \* files record has written below outdir: name -> bytes
    report,           \* gather.json: None, or the document written
    reportWrites,     \* how often gather.json was written
    exc,              \* the exception that left main (None if none)
    hist              \* per entry name: what its process really did

vars == <<errors_fatal, no_result_json, recordables, idx, pc, res, proc,
          results, files, report, reportWrites, exc, hist>>

NoProc == [rc |-> None, out |-> <<>>, err |-> <<>>, pipeHeld |-> FALSE]

(* ---------------------------------------------------------------------- *)
(* Result (lines 113-127) and the pure parts of Recorder                  *)
(* ---------------------------------------------------------------------- *)

(* Result(name, command): every other field at its default. *)
NewResult(name, command) ==
    [name |-> name, command |-> command, starttime |-> Some("t"),
     exectime |-> None, iotime |-> None, success |-> FALSE,
     return_code |-> None, shell |-> None, stdout_file |-> None,
     stderr_file |-> None, error_message |-> None]

Exception(type, arg) == Some([type |-> type, arg |-> arg])

(* The text of a token as it stands in the template. *)
RawText(tok) ==
    IF tok.kind = "field" THEN "{" \o tok.text \o "}" ELSE tok.text

(* parameters of __make_command: os.environ, overridden by outdir, name    *)
(* and command.  A value is the sequence of its whitespace-separated words.*)
Parameters(name, command) ==
    [k \in DOMAIN Environ \cup {"outdir", "name", "command"} |->
        CASE k = "outdir" -> <<"outdir">>
          [] k = "name" -> <<name>>
          [] k = "command" -> [i \in 1..Len(command) |-> RawText(command[i])]
          [] OTHER -> Environ[k]]

(* command.format: the template is read from the left to the right; a named *)
(* field is looked up in the keyword arguments (KeyError), a field without *)
(* a name is positional (IndexError, there are no positional arguments), a *)
(* single brace is malformed (ValueError).                                 *)
RECURSIVE Format(_, _)
Format(template, parameters) ==
    IF template = <<>> THEN [exc |-> None, words |-> <<>>]
    ELSE LET tok == Head(template) IN
         CASE tok.kind = "brace" ->
                [exc |-> Exception("ValueError", "Single '{' encountered in format string"),
                 words |-> <<>>]
           [] tok.kind = "field" /\ tok.text = "" ->
                [exc |-> Exception("IndexError", "Replacement index 0 out of range"),
                 words |-> <<>>]
           [] tok.kind = "field" /\ tok.text \notin DOMAIN parameters ->
                [exc |-> Exception("KeyError", tok.text), words |-> <<>>]
           [] OTHER ->
                LET piece == IF tok.kind = "field" THEN parameters[tok.text]
                             ELSE <<tok.text>>
                    rest == Format(Tail(template), parameters)
                IN  IF rest.exc # None THEN rest
                    ELSE [exc |-> None, words |-> piece \o rest.words]

(* shlex.split: the words of the text; a quote that is never closed is a  *)
(* ValueError.                                                             *)
ShlexSplit(words) ==
    IF \E i \in 1..Len(words) : words[i] = "'"
    THEN [exc |-> Exception("ValueError", "No closing quotation"), argv |-> <<>>]
    ELSE [exc |-> None, argv |-> words]

(* Recorder.__make_command *)
MakeCommand(name, command) ==
    LET text == Format(command, Parameters(name, command))
    IN  IF text.exc # None THEN [exc |-> text.exc, argv |-> <<>>]
        ELSE ShlexSplit(text.words)

(* Popen(res.shell, ...): the executable is looked up and run. *)
Popen(argv) ==
    CASE Executable(argv[1]) = "missing" ->
            Exception("FileNotFoundError", argv[1])
      [] Executable(argv[1]) = "not_executable" ->
            Exception("PermissionError", argv[1])
      [] OTHER -> None

(* The except clauses of record (lines 209-218): the Result a caught       *)
(* exception leaves; CalledProcessError is raised by nothing record calls. *)
Caught(e) == e.type \in {"KeyError", "CalledProcessError", "FileNotFoundError"}

Handled(r, e) ==
    CASE e.type = "KeyError" ->
            [r EXCEPT !.error_message = Some(<<"KeyError: Undefined variable", e.arg>>)]
      [] e.type = "CalledProcessError" ->
            [r EXCEPT !.error_message = Some(<<"CalledProcessError: retrun code:", e.arg>>),
                      !.return_code = Some(e.arg)]
      [] e.type = "FileNotFoundError" ->
            [r EXCEPT !.error_message = Some(<<"FileNotFoundError:", e.arg>>)]
      [] OTHER -> r

(* str(self.outdir / name) *)
OutPath(name) == "outdir/" \o name

(* _save_nonzero without its test of data (a mutant for C7). *)
SaveAlways(fs, name, data) ==
    [files |-> (OutPath(name) :> data) @@ fs, filename |-> Some(OutPath(name))]

(* Recorder._save_nonzero: the file system after the call, and the name    *)
(* returned.                                                               *)
SaveNonzero(fs, name, data) ==
    IF data # <<>>
    THEN [files |-> (OutPath(name) :> data) @@ fs, filename |-> Some(OutPath(name))]
    ELSE [files |-> fs, filename |-> None]

(* Line 203 without its test of errors_fatal (a mutant for C2). *)
FatalStderrAlways(stderr_data, fatal) == stderr_data # <<>>

(* Line 203: stderr_data and self.errors_fatal *)
FatalStderr(stderr_data, fatal) == stderr_data # <<>> /\ fatal

(* A drain that forgets what was read before the timeout (a mutant for C4). *)
DrainedAfterKillOnly(partial, rest) == rest

(* Lines 192-196: what the second communicate() returns after the kill:    *)
(* everything read from the pipe, before and after the timeout.            *)
Drained(partial, rest) == partial \o rest

(* A return_code left unset after a timeout (a mutant for C5). *)
ReturnCodeUnlessTimeout(returncode, timedOut) ==
    IF timedOut THEN None ELSE Some(returncode)

(* Line 207: res.return_code = infile.returncode *)
ReturnCode(returncode, timedOut) == Some(returncode)

(* success only for exit status 0 (a mutant for C8). *)
CompletedIfZero(r, returncode, timedOut) ==
    [r EXCEPT !.iotime = Some("t"),
              !.return_code = ReturnCode(returncode, timedOut),
              !.success = (returncode = 0)]

(* Lines 206-208: the Result of a process whose output was saved. *)
Completed(r, returncode, timedOut) ==
    [r EXCEPT !.iotime = Some("t"),
              !.return_code = ReturnCode(returncode, timedOut),
              !.success = TRUE]

(* A report of the successful Results only (a mutant for C9). *)
ReportOfSuccessful(rs) ==
    [version |-> "version", args |-> "args", run |-> "t",
     results |-> [n \in {m \in DOMAIN rs : rs[m].success} |-> rs[n]]]

(* Lines 258-271: the document main dumps to gather.json. *)
ReportOf(rs) ==
    [version |-> "version", args |-> "args", run |-> "t", results |-> rs]

(* ---------------------------------------------------------------------- *)
(* Steps                                                                  *)
(* ---------------------------------------------------------------------- *)

Empty == [k \in {} |-> None]

Init ==
    /\ errors_fatal \in BOOLEAN
    /\ no_result_json \in BOOLEAN
    /\ recordables \in Catalogs
    /\ idx = 1
    /\ pc = "loop"
    /\ res = None
    /\ proc = NoProc
    /\ results = Empty
    /\ files = Empty
    /\ report = None
    /\ reportWrites = 0
    /\ exc = None
    /\ hist = Empty

(* Line 224 and line 230: record returns asdict(res), record_all stores it *)
(* under the entry's name and goes on to the next entry.                   *)
Return(r) ==
    /\ results' = (r.name :> r) @@ results
    /\ idx' = idx + 1
    /\ pc' = "loop"
    /\ res' = None
    /\ proc' = NoProc
    /\ exc' = exc

(* An exception no except clause of record names leaves record; nothing in *)
(* record_all or main catches it.                                          *)
Raise(e) ==
    /\ pc' = "raised"
    /\ exc' = Some(e)
    /\ res' = None
    /\ proc' = NoProc
    /\ UNCHANGED <<results, idx>>

(* An exception raised inside record's try block. *)
Throw(r, e) == IF Caught(e) THEN Return(Handled(r, e)) ELSE Raise(e)

(* Lines 197-208 and 219-224: the output is saved, stderr is judged, the   *)
(* Result is completed and returned.                                       *)
Finish(r, returncode, stdout_data, stderr_data, timedOut) ==
    LET so == SaveNonzero(files, r.name \o ".out", stdout_data)
        se == SaveNonzero(so.files, r.name \o ".err", stderr_data)
        saved == [r EXCEPT !.exectime = Some("t"),
                           !.stdout_file = so.filename,
                           !.stderr_file = se.filename]
    IN  /\ files' = se.files
        /\ IF FatalStderr(stderr_data, errors_fatal)
           THEN Raise([type |-> "ValueError", arg |-> "Process wrote errors to STDERR!"])
           ELSE Return(Completed(saved, returncode, timedOut))

(* record_all takes the next entry; record runs up to the first            *)
(* communicate (lines 177-188).                                            *)
RecordStart ==
    /\ pc = "loop"
    /\ idx <= Len(recordables)
    /\ LET name == recordables[idx].name
           command == recordables[idx].command
           r0 == NewResult(name, command)
           mc == MakeCommand(name, command)
           r1 == [r0 EXCEPT !.shell = Some(mc.argv)]
       IN  IF mc.exc # None
           THEN Throw(r0, mc.exc[1]) /\ UNCHANGED hist
           ELSE IF mc.argv = <<>>
           THEN Throw(r1, [type |-> "AssertionError", arg |-> ""]) /\ UNCHANGED hist
           ELSE IF Popen(mc.argv) # None
           THEN Throw(r1, Popen(mc.argv)[1]) /\ UNCHANGED hist
           ELSE /\ pc' = "communicate"
                /\ res' = Some(r1)
                /\ proc' = NoProc
                /\ hist' = (name :> [outcome |-> "running", kill |-> FALSE,
                                     rc |-> None, out |-> <<>>, err |-> <<>>]) @@ hist
                /\ UNCHANGED <<results, idx, exc>>
    /\ UNCHANGED <<errors_fatal, no_result_json, recordables, files, report,
                   reportWrites>>

(* communicate(timeout) returns: the process has ended on its own and both *)
(* pipes are at their end; then lines 197-224.                             *)
CommunicateReturns ==
    /\ pc = "communicate"
    /\ \E rc \in ExitCodes, out \in Bytes(MaxBytes), err \in Bytes(MaxBytes) :
          /\ hist' = [hist EXCEPT ![res[1].name] =
                        [outcome |-> "exited", kill |-> FALSE, rc |-> Some(rc),
                         out |-> out, err |-> err]]
          /\ Finish(res[1], rc, out, err, FALSE)
    /\ UNCHANGED <<errors_fatal, no_result_json, recordables, report, reportWrites>>

(* communicate(timeout) raises TimeoutExpired (lines 189-192): kill() is   *)
(* called and the second communicate() starts.  By then the child has been *)
(* killed, or had already ended on its own; a process the child started    *)
(* may still hold the write ends of the pipes.                             *)
CommunicateTimeout ==
    /\ pc = "communicate"
    /\ \E status \in ExitCodes \cup {-SIGKILL}, held \in BOOLEAN,
          out \in Bytes(MaxBytes), err \in Bytes(MaxBytes) :
          /\ proc' = [rc |-> Some(status), out |-> out, err |-> err, pipeHeld |-> held]
          /\ hist' = [hist EXCEPT ![res[1].name] =
                        [outcome |-> "timeout", kill |-> TRUE, rc |-> Some(status),
                         out |-> out, err |-> err]]
    /\ pc' = "drain"
    /\ UNCHANGED <<errors_fatal, no_result_json, recordables, idx, res, results,
                   files, report, reportWrites, exc>>

(* A process started by the child ends and lets go of the pipes. *)
DescendantExits ==
    /\ pc = "drain"
    /\ proc.pipeHeld
    /\ proc' = [proc EXCEPT !.pipeHeld = FALSE]
    /\ UNCHANGED <<errors_fatal, no_result_json, recordables, idx, pc, res,
                   results, files, report, reportWrites, exc, hist>>

(* The second communicate() returns once the pipes are at their end (line  *)
(* 192); then lines 193-224.                                               *)
DrainReturns ==
    /\ pc = "drain"
    /\ ~proc.pipeHeld
    /\ \E rest_out \in Bytes(MaxBytes - Len(proc.out)),
          rest_err \in Bytes(MaxBytes - Len(proc.err)) :
          /\ hist' = [hist EXCEPT ![res[1].name].out = proc.out \o rest_out,
                                  ![res[1].name].err = proc.err \o rest_err]
          /\ Finish(res[1], proc.rc[1], Drained(proc.out, rest_out),
                    Drained(proc.err, rest_err), TRUE)
    /\ UNCHANGED <<errors_fatal, no_result_json, recordables, report, reportWrites>>

(* record_all returns results (line 231) and main writes gather.json       *)
(* unless told not to (lines 254-271).                                     *)
MainFinish ==
    /\ pc = "loop"
    /\ idx > Len(recordables)
    /\ pc' = "done"
    /\ IF ~no_result_json
       THEN /\ report' = Some(ReportOf(results))
            /\ reportWrites' = reportWrites + 1
       ELSE UNCHANGED <<report, reportWrites>>
    /\ UNCHANGED <<errors_fatal, no_result_json, recordables, idx, res, proc,
                   results, files, exc, hist>>

Next ==
    \/ RecordStart
    \/ CommunicateReturns
    \/ CommunicateTimeout
    \/ DescendantExits
    \/ DrainReturns
    \/ MainFinish

Spec == Init /\ [][Next]_vars

(* The interpreter runs main: communicate(timeout) returns or raises when  *)
(* the timeout is over at the latest, and the second communicate() returns *)
(* once the pipes are at their end.  Nothing makes a process the child     *)
(* started end.                                                            *)
LiveSpec ==
    /\ Spec
    /\ WF_vars(RecordStart)
    /\ WF_vars(CommunicateReturns \/ CommunicateTimeout)
    /\ WF_vars(DrainReturns)
    /\ WF_vars(MainFinish)

(* ---------------------------------------------------------------------- *)
(* Properties                                                             *)
(* ---------------------------------------------------------------------- *)

Entries == 1..Len(recordables)
NameAt(i) == recordables[i].name
CatalogNames == { NameAt(i) : i \in Entries }

(* The record call of entry i is over: it returned, or raised. *)
Finished(i) == idx > i \/ (idx = i /\ pc = "raised")

(* The process of entry i was spawned. *)
Spawned(i) == NameAt(i) \in DOMAIN hist

(* The exception of line 205 left main. *)
StderrAbort ==
    /\ pc = "raised"
    /\ exc = Exception("ValueError", "Process wrote errors to STDERR!")

(* The errors-fatal policy applies to the spawned entry i. *)
FatalApplies(i) == errors_fatal /\ hist[NameAt(i)].err # <<>>

(* The template of entry i does not expand: format or shlex.split raises. *)
ExpansionFails(i) ==
    MakeCommand(NameAt(i), recordables[i].command).exc # None

(* The template of entry i expands to the empty argument vector. *)
EmptyCommand(i) ==
    LET mc == MakeCommand(NameAt(i), recordables[i].command)
    IN  mc.exc = None /\ mc.argv = <<>>

(* The executable of entry i cannot be started: Popen raises. *)
SpawnFails(i) ==
    LET mc == MakeCommand(NameAt(i), recordables[i].command)
    IN  mc.exc = None /\ mc.argv # <<>> /\ Popen(mc.argv) # None

(* Entry i fails before a process runs, in one of the ways the error       *)
(* taxonomy names: an expansion error or a spawn error.                    *)
FailsBeforeRun(i) == ExpansionFails(i) \/ SpawnFails(i)

(* No entry taken up so far has an empty command. *)
NoEmptyCommand == \A i \in Entries : i <= idx => ~EmptyCommand(i)

(* Stream data of entry n is on disk under n ++ ext, and the Result (if    *)
(* there is one) names the file in field f; nothing of either for an empty *)
(* stream.                                                                 *)
StreamSaved(n, ext, f, data) ==
    IF data # <<>>
    THEN /\ OutPath(n \o ext) \in DOMAIN files
         /\ files[OutPath(n \o ext)] = data
         /\ n \in DOMAIN results => results[n][f] = Some(OutPath(n \o ext))
    ELSE /\ OutPath(n \o ext) \notin DOMAIN files
         /\ n \in DOMAIN results => results[n][f] = None

(* C1: with errors-fatal disabled no entry's outcome (normal exit,         *)
(* timeout, expansion failure, spawn failure) makes record_all raise, and  *)
(* once record_all has returned the results have exactly the catalog's     *)
(* keys, one Result per entry.  (Stated as the claim states it; the code   *)
(* violates it.)                                                           *)
C1_EveryEntryYieldsResult ==
    (~errors_fatal /\ NoEmptyCommand) =>
        /\ pc # "raised"
        /\ \A i \in Entries : Finished(i) =>
              /\ NameAt(i) \in DOMAIN results
              /\ results[NameAt(i)].name = NameAt(i)
        /\ pc = "done" => DOMAIN results = CatalogNames

(* C2: with errors-fatal enabled, a spawned entry whose stderr is not      *)
(* empty ends record_all with the error of line 205, after its streams     *)
(* were saved, and no later entry is spawned; with errors-fatal disabled   *)
(* such an entry gets its Result, the loop goes on to the next entry and   *)
(* the run is never ended by stderr.                                       *)
C2_FatalStderrStopsRun ==
    /\ \A i \in Entries :
          (Spawned(i) /\ Finished(i) /\ hist[NameAt(i)].err # <<>>) =>
             IF errors_fatal
             THEN /\ StderrAbort
                  /\ idx = i
                  /\ NameAt(i) \notin DOMAIN results
                  /\ StreamSaved(NameAt(i), ".out", "stdout_file", hist[NameAt(i)].out)
                  /\ StreamSaved(NameAt(i), ".err", "stderr_file", hist[NameAt(i)].err)
                  /\ \A j \in Entries : j > i => ~Spawned(j)
             ELSE /\ idx > i
                  /\ NameAt(i) \in DOMAIN results
    /\ ~errors_fatal => ~StderrAbort
    /\ (~errors_fatal /\ idx > Len(recordables) /\ \A i \in Entries : Spawned(i))
          => DOMAIN results = CatalogNames

(* C2 witness: errors-fatal is on, the first entry wrote to stderr, its    *)
(* .err file is on disk, the run has ended with the error and a later      *)
(* entry of the catalog was never spawned.                                 *)
C2_Witness ==
    /\ errors_fatal
    /\ StderrAbort
    /\ idx < Len(recordables)
    /\ OutPath(NameAt(idx) \o ".err") \in DOMAIN files
    /\ ~Spawned(idx + 1)

(* C3: with errors-fatal enabled, main is left by an exception only at an  *)
(* entry that was spawned and wrote to stderr; every other outcome gives a *)
(* Result and the loop goes on.  (Stated as the claim states it; the code  *)
(* violates it.)                                                           *)
C3_OnlyStderrAborts ==
    (errors_fatal /\ NoEmptyCommand) =>
        /\ pc = "raised" => (StderrAbort /\ Spawned(idx) /\ hist[NameAt(idx)].err # <<>>)
        /\ \A i \in Entries :
              (Finished(i) /\ ~(Spawned(i) /\ hist[NameAt(i)].err # <<>>))
                 => (idx > i /\ NameAt(i) \in DOMAIN results)

(* C4: an entry whose process ran into the timeout, and to which the       *)
(* errors-fatal policy does not apply: kill() was called, everything the   *)
(* pipes delivered (before and after the timeout) is on disk where it is   *)
(* not empty, the Result has success = true and no error_message, and the  *)
(* loop has gone on to the next entry.                                     *)
C4_TimeoutIsSuccess ==
    \A i \in Entries :
        (Spawned(i) /\ Finished(i) /\ hist[NameAt(i)].outcome = "timeout"
            /\ ~FatalApplies(i)) =>
           /\ hist[NameAt(i)].kill
           /\ idx > i
           /\ NameAt(i) \in DOMAIN results
           /\ results[NameAt(i)].success = TRUE
           /\ results[NameAt(i)].error_message = None
           /\ StreamSaved(NameAt(i), ".out", "stdout_file", hist[NameAt(i)].out)
           /\ StreamSaved(NameAt(i), ".err", "stderr_file", hist[NameAt(i)].err)

(* C4 witness: a timed-out entry with output has its Result, marked        *)
(* successful, and the run has a further entry to go on with.              *)
C4_Witness ==
    \E i \in Entries :
        /\ Spawned(i)
        /\ hist[NameAt(i)].outcome = "timeout"
        /\ hist[NameAt(i)].out # <<>>
        /\ NameAt(i) \in DOMAIN results
        /\ results[NameAt(i)].success
        /\ i < Len(recordables)
        /\ idx = i + 1

(* C5 as the claim states it: the Result of a timed-out command has no     *)
(* return_code, the Result of a command that ended on its own has one.     *)
C5_TimeoutHasNoReturnCode ==
    \A n \in DOMAIN results \cap DOMAIN hist :
        /\ hist[n].outcome = "timeout" => results[n].return_code = None
        /\ hist[n].outcome = "exited" => results[n].return_code # None

(* C5 amended: the Result of a timed-out command has a return_code, the    *)
(* status the process ended with: -SIGKILL, or its own exit status when it *)
(* had ended before kill() was called; the Result of a command that ended  *)
(* on its own has its exit status as return_code.                          *)
C5_TimeoutHasReturnCode ==
    \A n \in DOMAIN results \cap DOMAIN hist :
        /\ results[n].return_code # None
        /\ results[n].return_code = hist[n].rc
        /\ hist[n].outcome = "timeout" =>
              results[n].return_code[1] \in {-SIGKILL} \cup ExitCodes
        /\ hist[n].outcome = "exited" => results[n].return_code[1] \in ExitCodes

(* C5 witness: a Result of a command killed on timeout, return_code -9. *)
C5_Witness ==
    \E n \in DOMAIN results \cap DOMAIN hist :
        /\ hist[n].outcome = "timeout"
        /\ results[n].return_code = Some(-SIGKILL)

(* C6: an entry that fails before a process runs gets a failed Result      *)
(* (success false; return_code, exectime, stdout_file, stderr_file absent; *)
(* an error_message), creates no file and does not end the run.  (Stated   *)
(* as the claim states it; the code violates it.)                          *)
C6_FailureBeforeRunIsResult ==
    \A i \in Entries :
        (Finished(i) /\ FailsBeforeRun(i)) =>
           /\ idx > i
           /\ NameAt(i) \in DOMAIN results
           /\ results[NameAt(i)].success = FALSE
           /\ results[NameAt(i)].return_code = None
           /\ results[NameAt(i)].exectime = None
           /\ results[NameAt(i)].stdout_file = None
           /\ results[NameAt(i)].stderr_file = None
           /\ results[NameAt(i)].error_message # None
           /\ OutPath(NameAt(i) \o ".out") \notin DOMAIN files
           /\ OutPath(NameAt(i) \o ".err") \notin DOMAIN files

(* C7: for every spawned entry whose record call is over, each stream is   *)
(* on disk, byte for byte, under <outdir>/<name>.out or .err exactly if it *)
(* is not empty, and the Result names the file exactly then; while the     *)
(* process runs and for entries never spawned there is no file.            *)
C7_SavedIffNonEmpty ==
    \A i \in Entries :
        IF Spawned(i) /\ Finished(i)
        THEN /\ StreamSaved(NameAt(i), ".out", "stdout_file", hist[NameAt(i)].out)
             /\ StreamSaved(NameAt(i), ".err", "stderr_file", hist[NameAt(i)].err)
        ELSE /\ OutPath(NameAt(i) \o ".out") \notin DOMAIN files
             /\ OutPath(NameAt(i) \o ".err") \notin DOMAIN files

(* C7 witness: a spawned entry with empty stdout and empty stderr has its  *)
(* Result, both fields absent, and no file; another one wrote stdout only. *)
C7_Witness ==
    /\ \E n \in DOMAIN results \cap DOMAIN hist :
          /\ hist[n].out = <<>> /\ hist[n].err = <<>>
          /\ results[n].stdout_file = None /\ results[n].stderr_file = None
          /\ OutPath(n \o ".out") \notin DOMAIN files
    /\ \E n \in DOMAIN results \cap DOMAIN hist :
          /\ hist[n].out # <<>> /\ hist[n].err = <<>>
          /\ files[OutPath(n \o ".out")] = hist[n].out
          /\ results[n].stderr_file = None

(* C8: an entry whose process ended on its own within the timeout, and to  *)
(* which the errors-fatal policy does not apply, has a Result with success *)
(* = true, no error_message and the exit status as return_code, whatever   *)
(* the exit status.                                                        *)
C8_ExitIsSuccess ==
    \A i \in Entries :
        (Spawned(i) /\ Finished(i) /\ hist[NameAt(i)].outcome = "exited"
            /\ ~FatalApplies(i)) =>
           /\ NameAt(i) \in DOMAIN results
           /\ results[NameAt(i)].success = TRUE
           /\ results[NameAt(i)].error_message = None
           /\ results[NameAt(i)].return_code = hist[NameAt(i)].rc
           /\ hist[NameAt(i)].rc # None

(* C8 witness: a process that exited with status 1 has a successful Result. *)
C8_Witness ==
    \E n \in DOMAIN results \cap DOMAIN hist :
        /\ hist[n].outcome = "exited"
        /\ hist[n].rc = Some(1)
        /\ results[n].success
        /\ results[n].return_code = Some(1)

(* C9 as the claim states it: when a run that is to write the report has   *)
(* ended, by main finishing or by the errors-fatal abort, gather.json has  *)
(* been written once and holds the Result of every entry that was run.     *)
C9_ReportAfterEveryRun ==
    (~no_result_json /\ (pc = "done" \/ StderrAbort)) =>
        /\ reportWrites = 1
        /\ report # None
        /\ \A i \in Entries : Finished(i) =>
              NameAt(i) \in DOMAIN report[1].results

(* C9 amended: when main has finished a run that is to write the report    *)
(* (record_all returned), gather.json has been written once and holds the  *)
(* Result of every catalog entry, failed ones included, as record_all      *)
(* returned them; when an exception has left record_all (the errors-fatal  *)
(* abort among them), gather.json has not been written.                    *)
C9_ReportOnlyAfterFullRun ==
    /\ (pc = "done" /\ ~no_result_json) =>
          /\ reportWrites = 1
          /\ report # None
          /\ report[1].results = results
          /\ DOMAIN report[1].results = CatalogNames
    /\ pc # "done" => (reportWrites = 0 /\ report = None)

(* C9 witness: the report was written and holds a failed Result. *)
C9_Witness ==
    /\ pc = "done"
    /\ report # None
    /\ \E n \in DOMAIN report[1].results : ~report[1].results[n].success

(* C10: every record call comes to its end, so record_all ends: the run    *)
(* reaches main's end or an exception leaves it.  (Stated as the claim     *)
(* states it; the code violates it.)                                       *)
C10_RecordAllTerminates == <>(pc \in {"done", "raised"})

====
